---- MODULE Spec2Model ----
(***************************************************************************)
(* A model of wasmedgeup: platform naming (platform.rs), the downloader    *)
(* (downloader.rs), the runtime installer (installer.rs), the plugin       *)
(* manager (plugin.rs) and the command dispatch of main.rs.                *)
(*                                                                         *)
(* Strings that the code only formats and compares are TLA+ strings built  *)
(* with \o.  Strings that the code inspects character by character (plugin *)
(* names) are sequences of one-character strings, rendered by Join.        *)
(* The file system is a set of directory paths and a function from file    *)
(* paths to contents; a path is a sequence of components.                  *)
(***************************************************************************)
EXTENDS Integers, Sequences, FiniteSets, TLC

VARIABLES
    dirs,        \* the directories that exist (a set of paths)
    files,       \* the regular files that exist: path -> content
    platform,    \* the Platform of this host / invocation
    pc,          \* task -> the statement the task is at
    cmd,         \* task -> the command the task runs
    result,      \* task -> "none", "ok" or an error record
    iter,        \* task -> entries a read_dir iterator still has to yield
    dl,          \* task -> the state of the task's download_file call
    requests,    \* the URLs the current call has requested, in order
    verified,    \* the files verify_checksum has been called on
    history,     \* the finished commands (in the platform resolution, the
                 \* finished calls), in order, with their results
    plugins,     \* the plugin specs of a `plugin install|remove` command
    idx,         \* 1-based position of main's loop in plugins
    attempted,   \* positions of plugins whose install/remove was started
    libName,     \* remove_plugin's plugin_lib_name (or "none")
    found,       \* remove_plugin's found flag
    archive      \* task -> the release archive the server holds for it

vars == <<dirs, files, platform, pc, cmd, result, iter, dl, requests,
          verified, history, plugins, idx, attempted, libName, found, archive>>

----------------------------------------------------------------------------
(* Bounds of the model *)

MaxChunks == 1        \* chunks of a response body
MaxCommands == 3      \* commands run one after the other
MaxPlugins == 2       \* plugin specs on one command line
MaxSuffixLen == 3     \* generated characters after a plugin-name prefix
MaxAssets == 2        \* assets of the release the GitHub API answers with

Tasks == {1, 2}

----------------------------------------------------------------------------
(* platform.rs *)

LinuxDistro == {"Ubuntu", "Generic"}

OS == {[kind |-> "Linux", distro |-> d] : d \in LinuxDistro}
        \cup {[kind |-> "Darwin"], [kind |-> "Windows"]}

Architecture == {"X86_64", "Aarch64", "Arm64"}

Platform == [os : OS, arch : Architecture]

\* impl fmt::Display for OS
OSDisplay(os) ==
    IF os.kind = "Linux"
    THEN (IF os.distro = "Ubuntu" THEN "Ubuntu" ELSE "Linux")
    ELSE IF os.kind = "Darwin" THEN "Darwin" ELSE "Windows"

\* a rendering that tells Arm64 from Aarch64
ArchDisplayDistinct(a) ==
    IF a = "X86_64" THEN "x86_64" ELSE IF a = "Aarch64" THEN "aarch64" ELSE "arm64"

\* impl fmt::Display for Architecture
ArchDisplay(a) ==
    IF a = "X86_64" THEN "x86_64" ELSE "arm64"

\* Platform::get_release_package_name
get_release_package_name(p, v) ==
    IF p.os.kind = "Linux"
    THEN (IF p.os.distro = "Ubuntu"
          THEN "ubuntu20.04_" \o ArchDisplay(p.arch) \o ".tar.gz"
          ELSE "manylinux2014_" \o ArchDisplay(p.arch) \o ".tar.gz")
    ELSE IF p.os.kind = "Darwin"
    THEN "darwin_" \o ArchDisplay(p.arch) \o ".tar.gz"
    ELSE "windows_" \o ArchDisplay(p.arch) \o ".tar.gz"

\* PluginManager::get_platform_string
get_platform_string(p) ==
    IF p.os.kind = "Linux"
    THEN (IF p.os.distro = "Ubuntu"
          THEN "ubuntu20.04_" \o ArchDisplay(p.arch)
          ELSE "manylinux2014_" \o ArchDisplay(p.arch))
    ELSE IF p.os.kind = "Darwin"
    THEN "darwin_" \o ArchDisplay(p.arch)
    ELSE "windows_" \o ArchDisplay(p.arch)

----------------------------------------------------------------------------
(* The file system *)

IsPrefix(p, q) == Len(p) <= Len(q) /\ SubSeq(q, 1, Len(p)) = p

Parent(p) == SubSeq(p, 1, Len(p) - 1)

Exists(p) == p \in dirs \/ p \in DOMAIN files

\* the entries directly under directory p
Children(p) ==
    {q \in dirs \cup DOMAIN files : Len(q) = Len(p) + 1 /\ IsPrefix(p, q)}

Ancestors(p) == {SubSeq(p, 1, k) : k \in 1..Len(p)}

\* files with the files at the paths in gone taken away
Without(f, gone) == [q \in DOMAIN f \ gone |-> f[q]]

\* files with path p holding content c (created or overwritten)
WithFile(f, p, c) == [q \in DOMAIN f \cup {p} |-> IF q = p THEN c ELSE f[q]]

----------------------------------------------------------------------------
(* Results *)

None == [kind |-> "none"]
Ok == [kind |-> "ok"]
Err(e) == [kind |-> "err", err |-> e]
IoErr(at) == [kind |-> "err", err |-> "io", at |-> at]
HttpStatusError(s) == [kind |-> "err", err |-> "http", status |-> s]

----------------------------------------------------------------------------
(* downloader.rs: Downloader::download_file(url, dest), one call per task.  *)
(* dl[t].pc walks send -> status -> create -> stream -> returned.           *)

\* the statuses a server answers with in the model
Statuses == {200, 204, 301, 404, 500}

\* a status test that also lets redirects through
is_success_3xx(s) == 200 <= s /\ s <= 399

\* reqwest StatusCode::is_success (downloader.rs:33)
is_success(s) == 200 <= s /\ s <= 299

DlIdle == [pc |-> "idle", url |-> "", dest |-> <<>>, status |-> 0, result |-> None]

DlReturn(t, r) == dl' = [dl EXCEPT ![t].pc = "returned", ![t].result = r]

\* client.get(url).send().await.context(..)?   (downloader.rs:27-31)
DlSend(t) ==
    /\ dl[t].pc = "send"
    /\ requests' = Append(requests, dl[t].url)
    /\ \/ DlReturn(t, Err("send"))
       \/ \E s \in Statuses : dl' = [dl EXCEPT ![t].pc = "status", ![t].status = s]
    /\ UNCHANGED <<dirs, files, platform, pc, cmd, result, iter, verified, history,
                   plugins, idx, attempted, libName, found, archive>>

\* if !resp.status().is_success() { bail!(..) }   (downloader.rs:33-35)
DlStatus(t) ==
    /\ dl[t].pc = "status"
    /\ IF is_success(dl[t].status)
       THEN dl' = [dl EXCEPT ![t].pc = "create"]
       ELSE DlReturn(t, HttpStatusError(dl[t].status))
    /\ UNCHANGED <<dirs, files, platform, pc, cmd, result, iter, requests, verified,
                   history, plugins, idx, attempted, libName, found, archive>>

\* File::create(dest).await.context(..)?   (downloader.rs:44): creates or truncates
DlCreate(t) ==
    /\ dl[t].pc = "create"
    /\ \/ /\ Parent(dl[t].dest) \in dirs
          /\ dl[t].dest \notin dirs
          /\ files' = WithFile(files, dl[t].dest,
                               [kind |-> "download", chunks |-> 0, complete |-> FALSE,
                                body |-> archive[t]])
          /\ dl' = [dl EXCEPT ![t].pc = "stream"]
       \/ /\ DlReturn(t, Err("create"))
          /\ UNCHANGED files
    /\ UNCHANGED <<dirs, platform, pc, cmd, result, iter, requests, verified, history,
                   plugins, idx, attempted, libName, found, archive>>

\* while let Some(chunk) = stream.next().await { chunk?; file.write_all(..)?; .. }
\* then Ok(())   (downloader.rs:48-56)
DlStream(t) ==
    /\ dl[t].pc = "stream"
    /\ \/ /\ dl[t].dest \in DOMAIN files
          /\ files[dl[t].dest].chunks < MaxChunks
          /\ files' = [files EXCEPT ![dl[t].dest].chunks = @ + 1]
          /\ UNCHANGED dl
       \/ /\ DlReturn(t, Err("chunk"))
          /\ UNCHANGED files
       \/ /\ dl[t].dest \in DOMAIN files
          /\ files' = [files EXCEPT ![dl[t].dest].complete = TRUE]
          /\ DlReturn(t, Ok)
    /\ UNCHANGED <<dirs, platform, pc, cmd, result, iter, requests, verified, history,
                   plugins, idx, attempted, libName, found, archive>>

----------------------------------------------------------------------------
(* installer.rs: Installer { install_path, temp_dir, platform }             *)

\* cli.rs:27 default `~/.wasmedge`, expanded by main.rs expand_path
install_path == <<"home", ".wasmedge">>

\* cli.rs:31 default `/tmp`
temp_dir == <<"tmp">>

Versions == {"0.14.1", "0.13.5"}

\* main.rs:45-49: "latest" stands for 0.14.1
ResolveVersion(arg) == IF arg = "latest" THEN "0.14.1" ELSE arg

\* installer.rs:49-52
download_url(p, v) ==
    "https://github.com/WasmEdge/WasmEdge/releases/download/" \o v
        \o "/WasmEdge-" \o v \o "-" \o get_release_package_name(p, v)

\* installer.rs:56
archive_path(v) == Append(temp_dir, "wasmedge-" \o v \o ".tar.gz")

\* installer.rs:80: format!("WasmEdge-{}-{}", platform.os, platform.arch)
extracted_dir(p, v) ==
    Append(temp_dir, "WasmEdge-" \o OSDisplay(p.os) \o "-" \o ArchDisplay(p.arch))

\* the root directory name `WasmEdge-<version>-<os-token>-<arch-token>`, the
\* tokens being those of the download URL (the package name without .tar.gz)
UrlTokenRoot(p, v) == "WasmEdge-" \o v \o "-" \o get_platform_string(p)

\* the release archives a server may hold: a root directory with some of
\* bin, lib64, lib, include under it, each with its entries
ArchiveEntries ==
    [bin |-> {"wasmedge", "wasmedgec"}, lib64 |-> {"libwasmedge.so"},
     lib |-> {"libwasmedge.a"}, include |-> {"wasmedge.h"}]

ArchiveTrees ==
    {[d \in D |-> ArchiveEntries[d]] :
        D \in {S \in SUBSET {"bin", "lib64", "lib", "include"} : "include" \in S}}

RuntimeArchives(p, v) ==
    [root : {UrlTokenRoot(p, v), extracted_dir(p, v)[Len(temp_dir) + 1]},
     tree : ArchiveTrees,
     version : {v}]

NoArchive == [root |-> "", tree |-> <<>>, version |-> ""]

Finish(t, r) ==
    /\ pc' = [pc EXCEPT ![t] = "done"]
    /\ result' = [result EXCEPT ![t] = r]

Goto(t, l) == pc' = [pc EXCEPT ![t] = l]

\* a creation that takes the directory as a lock: it waits while the
\* directory exists
MkdirExclusive(t, at, path, next) ==
    /\ pc[t] = at
    /\ path \notin dirs
    /\ Ancestors(path) \cap DOMAIN files = {}
    /\ dirs' = dirs \cup Ancestors(path)
    /\ Goto(t, next)
    /\ UNCHANGED <<files, platform, cmd, result, iter, dl, requests, verified,
                   history, plugins, idx, attempted, libName, found, archive>>

\* fs::create_dir_all(path).await?  at statement `at`, then go to `next`
Mkdir(t, at, path, next) ==
    /\ pc[t] = at
    /\ \/ /\ Ancestors(path) \cap DOMAIN files = {}
          /\ dirs' = dirs \cup Ancestors(path)
          /\ Goto(t, next)
          /\ UNCHANGED result
       \/ /\ Finish(t, IoErr(at))
          /\ UNCHANGED dirs
    /\ UNCHANGED <<files, platform, cmd, iter, dl, requests, verified, history,
                   plugins, idx, attempted, libName, found, archive>>

\* installer.rs:33-34, 42-45
CreateDirs(t) ==
    \/ Mkdir(t, "mk_install", install_path, "mk_temp")
    \/ Mkdir(t, "mk_temp", temp_dir, "mk_bin")
    \/ Mkdir(t, "mk_bin", Append(install_path, "bin"), "mk_lib")
    \/ Mkdir(t, "mk_lib", Append(install_path, "lib"), "mk_include")
    \/ Mkdir(t, "mk_include", Append(install_path, "include"), "mk_plugin")
    \/ Mkdir(t, "mk_plugin", Append(install_path, "plugin"), "download")

\* installer.rs:48-57: self.downloader.download_file(&download_url, &archive_path)
InstallDownload(t) ==
    /\ pc[t] = "download"
    /\ dl' = [dl EXCEPT ![t] = [pc |-> "send",
                                url |-> download_url(platform, cmd[t].version),
                                dest |-> archive_path(cmd[t].version),
                                status |-> 0, result |-> None]]
    /\ Goto(t, "downloading")
    /\ UNCHANGED <<dirs, files, platform, cmd, result, iter, requests, verified,
                   history, plugins, idx, attempted, libName, found, archive>>

\* installer.rs:57: the `.await?` on download_file's result
InstallDownloaded(t) ==
    /\ pc[t] = "downloading"
    /\ dl[t].pc = "returned"
    /\ IF dl[t].result = Ok
       THEN Goto(t, "read_archive") /\ UNCHANGED result
       ELSE Finish(t, dl[t].result)
    /\ dl' = [dl EXCEPT ![t] = DlIdle]
    /\ UNCHANGED <<dirs, files, platform, cmd, iter, requests, verified, history,
                   plugins, idx, attempted, libName, found, archive>>

\* installer.rs:72: fs::read(archive_path).await.context(..)?
ReadArchive(t) ==
    /\ pc[t] = "read_archive"
    /\ \/ /\ archive_path(cmd[t].version) \in DOMAIN files
          /\ Goto(t, "unpack")
          /\ UNCHANGED result
       \/ Finish(t, IoErr("read_archive"))
    /\ UNCHANGED <<dirs, files, platform, cmd, iter, dl, requests, verified, history,
                   plugins, idx, attempted, libName, found, archive>>

\* the directories and files Archive::unpack(temp_dir) creates for archive a
UnpackedDirs(a) ==
    {Append(temp_dir, a.root)}
        \cup {temp_dir \o <<a.root, d>> : d \in DOMAIN a.tree}

UnpackedFiles(a) ==
    UNION {{temp_dir \o <<a.root, d, n>> : n \in a.tree[d]} : d \in DOMAIN a.tree}

\* installer.rs:73-77: GzDecoder, Archive::unpack(&self.temp_dir).context(..)?
Unpack(t) ==
    /\ pc[t] = "unpack"
    /\ LET f == files[archive_path(cmd[t].version)]
           a == f.body
       IN \/ /\ f.complete
             /\ temp_dir \in dirs
             /\ dirs' = dirs \cup UnpackedDirs(a)
             /\ files' = [q \in DOMAIN files \cup UnpackedFiles(a) |->
                            IF q \in UnpackedFiles(a)
                            THEN [kind |-> "entry", version |-> a.version]
                            ELSE files[q]]
             /\ Goto(t, "read_bin")
             /\ UNCHANGED result
          \/ /\ Finish(t, IoErr("unpack"))
             /\ UNCHANGED <<dirs, files>>
    /\ UNCHANGED <<platform, cmd, iter, dl, requests, verified, history,
                   plugins, idx, attempted, libName, found, archive>>

\* if let Ok(mut entries) = fs::read_dir(src).await { .. }: a directory that
\* cannot be read is skipped
ReadDir(t, at, src, move, next) ==
    /\ pc[t] = at
    /\ IF src \in dirs
       THEN iter' = [iter EXCEPT ![t] = Children(src)] /\ Goto(t, move)
       ELSE UNCHANGED iter /\ Goto(t, next)
    /\ UNCHANGED <<dirs, files, platform, cmd, result, dl, requests, verified, history,
                   plugins, idx, attempted, libName, found, archive>>

\* while let Ok(Some(entry)) = entries.next_entry().await {
\*     fs::rename(entry.path(), install_path.join(sub).join(entry.file_name())).await?; }
MoveEntries(t, at, sub, next) ==
    /\ pc[t] = at
    /\ IF iter[t] = {}
       THEN Goto(t, next) /\ UNCHANGED <<files, iter, result>>
       ELSE \E e \in iter[t] :
              \/ /\ e \in DOMAIN files
                 /\ Append(install_path, sub) \in dirs
                 /\ files' = WithFile(Without(files, {e}),
                                      install_path \o <<sub, e[Len(e)]>>, files[e])
                 /\ iter' = [iter EXCEPT ![t] = @ \ {e}]
                 /\ UNCHANGED <<pc, result>>
              \/ /\ Finish(t, IoErr(at))
                 /\ UNCHANGED <<files, iter>>
    /\ UNCHANGED <<dirs, platform, cmd, dl, requests, verified, history,
                   plugins, idx, attempted, libName, found, archive>>

\* installer.rs:93-97
lib_source(p, v) ==
    IF Exists(Append(extracted_dir(p, v), "lib64"))
    THEN Append(extracted_dir(p, v), "lib64")
    ELSE Append(extracted_dir(p, v), "lib")

\* installer.rs:84-112, the second half of extract_archive
MoveFiles(t) ==
    LET x == extracted_dir(platform, cmd[t].version)
    IN \/ ReadDir(t, "read_bin", Append(x, "bin"), "move_bin", "read_lib")
       \/ MoveEntries(t, "move_bin", "bin", "read_lib")
       \/ ReadDir(t, "read_lib", lib_source(platform, cmd[t].version),
                  "move_lib", "read_include")
       \/ MoveEntries(t, "move_lib", "lib", "read_include")
       \/ ReadDir(t, "read_include", Append(x, "include"), "move_include", "write_env")
       \/ MoveEntries(t, "move_include", "include", "write_env")

PathStr(p) ==
    LET RECURSIVE J(_)
        J(q) == IF q = <<>> THEN "" ELSE "/" \o Head(q) \o J(Tail(q))
    IN J(p)

\* installer.rs:118-139: the content of the env script, line by line
env_content(p) ==
    IF p.os.kind = "Linux"
    THEN <<"#!/bin/sh",
           "export PATH=" \o PathStr(Append(install_path, "bin")) \o ":$PATH",
           "export LD_LIBRARY_PATH=" \o PathStr(Append(install_path, "lib"))
               \o ":$LD_LIBRARY_PATH">>
    ELSE IF p.os.kind = "Darwin"
    THEN <<"#!/bin/sh",
           "export PATH=" \o PathStr(Append(install_path, "bin")) \o ":$PATH",
           "export DYLD_LIBRARY_PATH=" \o PathStr(Append(install_path, "lib"))
               \o ":$DYLD_LIBRARY_PATH">>
    ELSE <<"@echo off",
           "set PATH=" \o PathStr(Append(install_path, "bin")) \o ";%PATH%">>

env_file == Append(install_path, "env")

\* installer.rs:141: fs::write(env_file, content).await?
WriteEnv(t) ==
    /\ pc[t] = "write_env"
    /\ \/ /\ install_path \in dirs
          /\ env_file \notin dirs
          /\ files' = WithFile(files, env_file,
                               [kind |-> "env", lines |-> env_content(platform),
                                mode |-> IF env_file \in DOMAIN files
                                         THEN files[env_file].mode ELSE "0644"])
          /\ Goto(t, "chmod_env")
          /\ UNCHANGED result
       \/ /\ Finish(t, IoErr("write_env"))
          /\ UNCHANGED files
    /\ UNCHANGED <<dirs, platform, cmd, iter, dl, requests, verified, history,
                   plugins, idx, attempted, libName, found, archive>>

\* installer.rs:144-150 (cfg(unix)): metadata()?, set_mode(0o755), set_permissions()?
ChmodEnv(t) ==
    /\ pc[t] = "chmod_env"
    /\ \/ /\ env_file \in DOMAIN files
          /\ files' = [files EXCEPT ![env_file].mode = "0755"]
          /\ Goto(t, "remove_archive")
          /\ UNCHANGED result
       \/ /\ Finish(t, IoErr("chmod_env"))
          /\ UNCHANGED files
    /\ UNCHANGED <<dirs, platform, cmd, iter, dl, requests, verified, history,
                   plugins, idx, attempted, libName, found, archive>>

\* a cleanup whose failure is swallowed: install returns Ok all the same
RemoveArchiveSwallow(t) ==
    /\ pc[t] = "remove_archive"
    /\ \/ /\ archive_path(cmd[t].version) \in DOMAIN files
          /\ files' = Without(files, {archive_path(cmd[t].version)})
          /\ Finish(t, Ok)
       \/ /\ Finish(t, Ok)
          /\ UNCHANGED files
    /\ UNCHANGED <<dirs, platform, cmd, iter, dl, requests, verified, history,
                   plugins, idx, attempted, libName, found, archive>>

\* installer.rs:66-68: fs::remove_file(archive_path).await?; Ok(())
RemoveArchive(t) ==
    /\ pc[t] = "remove_archive"
    /\ \/ /\ archive_path(cmd[t].version) \in DOMAIN files
          /\ files' = Without(files, {archive_path(cmd[t].version)})
          /\ Finish(t, Ok)
       \/ /\ Finish(t, IoErr("remove_archive"))
          /\ UNCHANGED files
    /\ UNCHANGED <<dirs, platform, cmd, iter, dl, requests, verified, history,
                   plugins, idx, attempted, libName, found, archive>>

\* fs::remove_dir_all(p): the directories left
remove_dir_all(ds, p) == {d \in ds : ~IsPrefix(p, d)}

\* a removal that does not look whether the path exists
remove_guard_always(p) == TRUE

\* installer.rs:157: self.install_path.exists()
remove_guard(p) == Exists(p)

\* installer.rs:155-161: Installer::remove_runtime
remove_runtime(t) ==
    /\ pc[t] = "remove"
    /\ IF remove_guard(install_path)
       THEN IF install_path \in dirs
            THEN /\ dirs' = remove_dir_all(dirs, install_path)
                 /\ files' = Without(files, {q \in DOMAIN files : IsPrefix(install_path, q)})
                 /\ Finish(t, Ok)
            ELSE /\ UNCHANGED <<dirs, files>>
                 /\ Finish(t, IoErr("remove_dir_all"))
       ELSE /\ UNCHANGED <<dirs, files>>
            /\ Finish(t, Ok)
    /\ UNCHANGED <<platform, cmd, iter, dl, requests, verified, history,
                   plugins, idx, attempted, libName, found, archive>>

----------------------------------------------------------------------------
(* main.rs: the runtime commands.  One command runs at a time; the next one *)
(* starts on the file system the previous one left.  A task runs `install` *)
(* as its first command only, and `remove` any number of times after.      *)

NoCmd == [op |-> "none", version |-> ""]

Quiet == \A u \in Tasks : pc[u] \in {"idle", "done"}

\* the finished command of task t joins the history when t starts another
Begin(t, c, l) ==
    /\ Quiet
    /\ Len(history) + (IF pc[t] = "done" THEN 1 ELSE 0) < MaxCommands
    /\ history' = IF pc[t] = "done"
                  THEN Append(history, [op |-> cmd[t].op, result |-> result[t]])
                  ELSE history
    /\ cmd' = [cmd EXCEPT ![t] = c]
    /\ pc' = [pc EXCEPT ![t] = l]
    /\ result' = [result EXCEPT ![t] = None]

\* main.rs:29-52: Commands::Install { version, .. }
MainInstall(t) ==
    \E arg \in Versions \cup {"latest"} :
      \E a \in RuntimeArchives(platform, ResolveVersion(arg)) :
        /\ pc[t] = "idle"
        /\ cmd' = [cmd EXCEPT ![t] = [op |-> "install", version |-> ResolveVersion(arg)]]
        /\ pc' = [pc EXCEPT ![t] = "mk_install"]
        /\ archive' = [archive EXCEPT ![t] = a]
        /\ UNCHANGED <<dirs, files, platform, result, iter, dl, requests, verified,
                       history, plugins, idx, attempted, libName, found>>

\* main.rs:63-74: Commands::Remove { path }
MainRemove(t) ==
    /\ Begin(t, [op |-> "remove", version |-> ""], "remove")
    /\ UNCHANGED <<dirs, files, platform, iter, dl, requests, verified,
                   plugins, idx, attempted, libName, found, archive>>

\* installer.rs:31-69: Installer::install_runtime, statement by statement
install_runtime(t) ==
    \/ CreateDirs(t)
    \/ InstallDownload(t)
    \/ DlSend(t)
    \/ DlStatus(t)
    \/ DlCreate(t)
    \/ DlStream(t)
    \/ InstallDownloaded(t)
    \/ ReadArchive(t)
    \/ Unpack(t)
    \/ MoveFiles(t)
    \/ WriteEnv(t)
    \/ ChmodEnv(t)
    \/ RemoveArchive(t)

\* a file of the user's next to the install path, in its parent directory
UserFile == <<"home", "notes.txt">>

FreshDirs == {<<"home">>, temp_dir}

\* the tree an earlier install left
InstalledDirs ==
    FreshDirs \cup {install_path} \cup
        {Append(install_path, d) : d \in {"bin", "lib", "include", "plugin"}}

InitCommon ==
    /\ pc = [t \in Tasks |-> "idle"]
    /\ cmd = [t \in Tasks |-> NoCmd]
    /\ result = [t \in Tasks |-> None]
    /\ iter = [t \in Tasks |-> {}]
    /\ dl = [t \in Tasks |-> DlIdle]
    /\ archive = [t \in Tasks |-> NoArchive]
    /\ requests = <<>>
    /\ verified = {}
    /\ history = <<>>
    /\ plugins = <<>>
    /\ idx = 0
    /\ attempted = {}
    /\ libName = ""
    /\ found = FALSE

\* the archive a download of 0.14.1 left in the temp directory when the
\* install that fetched it failed before its cleanup
Leftover ==
    archive_path("0.14.1")
        :> [kind |-> "download", chunks |-> 1, complete |-> TRUE,
            body |-> [root |-> "WasmEdge-0.14.1-Linux",
                      tree |-> [include |-> {"wasmedge.h"}],
                      version |-> "0.14.1"]]

InitRuntime ==
    /\ InitCommon
    /\ platform \in Platform
    /\ \E tmp \in {<<>>, Leftover} :
         \/ /\ dirs = FreshDirs
            /\ files = (UserFile :> [kind |-> "user"]) @@ tmp
         \/ /\ dirs = InstalledDirs
            /\ files = (UserFile :> [kind |-> "user"])
                         @@ (install_path \o <<"bin", "wasmedge">>
                                 :> [kind |-> "entry", version |-> "0.13.5"])
                         @@ tmp

NextRuntime ==
    \/ MainInstall(1)
    \/ MainRemove(1)
    \/ install_runtime(1)
    \/ remove_runtime(1)

SpecRuntime == InitRuntime /\ [][NextRuntime]_vars

----------------------------------------------------------------------------
(* Character strings: sequences of one-character strings                    *)

RECURSIVE Join(_)
Join(s) == IF s = <<>> THEN "" ELSE Head(s) \o Join(Tail(s))

StartsWith(s, pre) == Len(pre) <= Len(s) /\ SubSeq(s, 1, Len(pre)) = pre

\* str::find(c): the 1-based position of the first c in s, 0 if there is none
Find(s, c) ==
    IF \E i \in 1..Len(s) : s[i] = c
    THEN CHOOSE i \in 1..Len(s) : s[i] = c /\ \A j \in 1..(i - 1) : s[j] # c
    ELSE 0

\* str::split(c): the segments between the c's; one (empty) segment for ""
RECURSIVE Split(_, _)
Split(s, c) ==
    IF Find(s, c) = 0
    THEN <<s>>
    ELSE <<SubSeq(s, 1, Find(s, c) - 1)>> \o Split(SubSeq(s, Find(s, c) + 1, Len(s)), c)

Upper ==
    [a |-> "A", b |-> "B", c |-> "C", d |-> "D", e |-> "E", f |-> "F", g |-> "G",
     h |-> "H", i |-> "I", j |-> "J", k |-> "K", l |-> "L", m |-> "M", n |-> "N",
     o |-> "O", p |-> "P", q |-> "Q", r |-> "R", s |-> "S", t |-> "T", u |-> "U",
     v |-> "V", w |-> "W", x |-> "X", y |-> "Y", z |-> "Z"]

\* char::to_uppercase on ASCII
to_uppercase(c) == IF c \in DOMAIN Upper THEN Upper[c] ELSE c

\* str::to_lowercase on ASCII
to_lowercase(s) ==
    [i \in 1..Len(s) |->
       IF \E k \in DOMAIN Upper : Upper[k] = s[i]
       THEN CHOOSE k \in DOMAIN Upper : Upper[k] = s[i]
       ELSE s[i]]

----------------------------------------------------------------------------
(* cli.rs *)

\* Cli::parse_plugin_name_version (cli.rs:79-85): split_once('@')
parse_plugin_name_version(spec) ==
    IF Find(spec, "@") = 0
    THEN [name |-> spec, version |-> [some |-> FALSE, v |-> <<>>]]
    ELSE [name |-> SubSeq(spec, 1, Find(spec, "@") - 1),
          version |-> [some |-> TRUE,
                       v |-> SubSeq(spec, Find(spec, "@") + 1, Len(spec))]]

----------------------------------------------------------------------------
(* plugin.rs: PluginManager { runtime_version, platform }                   *)

\* main.rs:80: PluginManager::new("0.14.1".to_string(), platform.clone())
runtime_version == "0.14.1"

\* plugin.rs:161-164: home_dir().join(".wasmedge").join("plugin")
plugin_dir == <<"home", ".wasmedge", "plugin">>

\* plugin.rs:184: tempfile::tempdir(), a fresh directory under the temp directory
plugin_temp_dir == <<"tmp", ".tmpPlugin">>

\* plugin.rs:185
plugin_archive_path == Append(plugin_temp_dir, "plugin.tar.gz")

\* a normalisation that replaces every `-`
url_plugin_name_all(name) ==
    [i \in 1..Len(name) |-> IF name[i] = "-" THEN "_" ELSE name[i]]

\* plugin.rs:168-175: the first `-` becomes `_`
url_plugin_name(name) ==
    IF Find(name, "-") # 0
    THEN SubSeq(name, 1, Find(name, "-") - 1) \o <<"_">>
            \o SubSeq(name, Find(name, "-") + 1, Len(name))
    ELSE name

\* plugin.rs:177-180
plugin_url(p, name) ==
    "https://github.com/WasmEdge/WasmEdge/releases/download/" \o runtime_version
        \o "/WasmEdge-plugin-" \o Join(url_plugin_name(name)) \o "-" \o runtime_version
        \o "-" \o get_platform_string(p) \o ".tar.gz"

\* plugin.rs:198-201
plugin_alt_url(p, name) ==
    "https://github.com/WasmEdge/WasmEdge/releases/download/" \o runtime_version
        \o "/WasmEdge-plugin-" \o Join(url_plugin_name(name))
        \o "-" \o get_platform_string(p) \o ".tar.gz"

\* an error that names the plugin as it appears in the URL
PluginNotFoundUrlName(p, name) ==
    [kind |-> "err", err |-> "plugin_not_found", plugin |-> Join(url_plugin_name(name)),
     os |-> OSDisplay(p.os), arch |-> ArchDisplay(p.arch), tag |-> runtime_version]

\* plugin.rs:221-227: the error install_plugin bails with when nothing was installed
PluginNotFound(p, name) ==
    [kind |-> "err", err |-> "plugin_not_found", plugin |-> Join(name),
     os |-> OSDisplay(p.os), arch |-> ArchDisplay(p.arch), tag |-> runtime_version]

\* plugin.rs:272: the error remove_plugin bails with when no file matched
PluginNotInstalled(name) ==
    [kind |-> "err", err |-> "plugin_not_installed", plugin |-> Join(name)]

\* the outcome of a panic: the process aborts
Panicked == [kind |-> "panic"]

\* a segment left as it is
TitleCaseNone(s) == s

\* plugin.rs:249: s.chars().next().unwrap().to_uppercase().chain(s[1..].chars())
\* (only called on a non-empty s; on an empty s the unwrap panics)
TitleCase(s) == <<to_uppercase(s[1])>> \o SubSeq(s, 2, Len(s))

RECURSIVE Concat(_)
Concat(ss) == IF ss = <<>> THEN <<>> ELSE Head(ss) \o Concat(Tail(ss))

\* the extension of a shared library on Linux
lib_extension_so == ".so"

\* plugin.rs:243, 245, 251, 252: the extension every arm ends the name with
lib_extension == ".dylib"

\* plugin.rs:242-253: plugin_lib_name; panic is TRUE when the expression panics
plugin_lib_name(name) ==
    IF StartsWith(name, <<"w", "a", "s", "i", "-", "n", "n", "-">>)
    THEN [panic |-> FALSE, lib |-> "libwasmedgePluginWasiNN" \o lib_extension]
    ELSE IF StartsWith(name, <<"w", "a", "s", "i", "-", "c", "r", "y", "p", "t", "o">>)
    THEN [panic |-> FALSE, lib |-> "libwasmedgePluginWasiCrypto" \o lib_extension]
    ELSE IF StartsWith(name, <<"w", "a", "s", "m", "e", "d", "g", "e", "-">>)
    THEN LET segs == Split(SubSeq(name, 10, Len(name)), "-")
         IN IF \E i \in 1..Len(segs) : segs[i] = <<>>
            THEN [panic |-> TRUE, lib |-> ""]
            ELSE [panic |-> FALSE,
                  lib |-> "libwasmedgePluginWasmEdge"
                            \o Join(Concat([i \in 1..Len(segs) |-> TitleCase(segs[i])]))
                            \o lib_extension]
    ELSE [panic |-> FALSE, lib |-> "libwasmedgePlugin" \o Join(name) \o lib_extension]

\* the plugin archives a server may hold: entries <stem>.<ext>
PluginArchives ==
    {[entries |-> {[stem |-> "libwasmedgePluginWasiNN", ext |-> "so"],
                   [stem |-> "README", ext |-> "md"]}],
     [entries |-> {[stem |-> "libwasmedgePluginWasmEdgeImage", ext |-> "dylib"],
                   [stem |-> "wasmedgePluginWasmEdgeImage", ext |-> "dll"],
                   [stem |-> "LICENSE", ext |-> ""]}]}

FileName(e) == IF e.ext = "" THEN e.stem ELSE e.stem \o "." \o e.ext

\* plugin.rs:142-143: the entries extract_plugin unpacks
PluginLibs(a) == {e \in a.entries : e.ext \in {"so", "dll", "dylib"}}

WithPlugins(f, es) ==
    [q \in DOMAIN f \cup {Append(plugin_dir, FileName(e)) : e \in es} |->
        IF q \in DOMAIN f THEN f[q] ELSE [kind |-> "plugin"]]

\* install_plugin returns r: to the drop of its TempDir, then to main
PReturn(t, r) ==
    /\ pc' = [pc EXCEPT ![t] = "pi_drop"]
    /\ result' = [result EXCEPT ![t] = r]

\* plugin.rs:166: std::fs::create_dir_all(&plugin_dir)?
PiMkdir(t) ==
    /\ pc[t] = "pi_mkdir"
    /\ \/ /\ Ancestors(plugin_dir) \cap DOMAIN files = {}
          /\ dirs' = dirs \cup Ancestors(plugin_dir)
          /\ Goto(t, "pi_tempdir")
          /\ UNCHANGED result
       \/ /\ pc' = [pc EXCEPT ![t] = "ret"]
          /\ result' = [result EXCEPT ![t] = IoErr("pi_mkdir")]
          /\ UNCHANGED dirs
    /\ UNCHANGED <<files, platform, cmd, iter, dl, requests, verified, history,
                   plugins, idx, attempted, libName, found, archive>>

\* plugin.rs:184: tempfile::tempdir()?
PiTempdir(t) ==
    /\ pc[t] = "pi_tempdir"
    /\ \/ /\ temp_dir \in dirs
          /\ dirs' = dirs \cup {plugin_temp_dir}
          /\ Goto(t, "pi_dl1")
          /\ UNCHANGED result
       \/ /\ pc' = [pc EXCEPT ![t] = "ret"]
          /\ result' = [result EXCEPT ![t] = IoErr("pi_tempdir")]
          /\ UNCHANGED dirs
    /\ UNCHANGED <<files, platform, cmd, iter, dl, requests, verified, history,
                   plugins, idx, attempted, libName, found, archive>>

PiCall(t, at, url, next) ==
    /\ pc[t] = at
    /\ dl' = [dl EXCEPT ![t] = [pc |-> "send", url |-> url,
                                dest |-> plugin_archive_path,
                                status |-> 0, result |-> None]]
    /\ Goto(t, next)
    /\ UNCHANGED <<dirs, files, platform, cmd, result, iter, requests, verified,
                   history, plugins, idx, attempted, libName, found, archive>>

\* plugin.rs:187 and 205: self.downloader.download_file(&url, &archive_path)
PiDownload(t) ==
    \/ PiCall(t, "pi_dl1", plugin_url(platform, cmd[t].name), "pi_wait1")
    \/ PiCall(t, "pi_dl2", plugin_alt_url(platform, cmd[t].name), "pi_wait2")

\* plugin.rs:187-196: match on the primary download
PiPrimary(t) ==
    /\ pc[t] = "pi_wait1"
    /\ dl[t].pc = "returned"
    /\ cmd' = [cmd EXCEPT ![t].first = dl[t].result.kind]
    /\ IF dl[t].result = Ok THEN Goto(t, "pi_extract") ELSE Goto(t, "pi_dl2")
    /\ dl' = [dl EXCEPT ![t] = DlIdle]
    /\ UNCHANGED <<dirs, files, platform, result, iter, requests, verified,
                   history, plugins, idx, attempted, libName, found, archive>>

\* plugin.rs:205-216 and 220-228: match on the alternate download; with
\* neither downloaded, installed is false and install_plugin bails
PiAlternate(t) ==
    /\ pc[t] = "pi_wait2"
    /\ dl[t].pc = "returned"
    /\ cmd' = [cmd EXCEPT ![t].second = dl[t].result.kind]
    /\ IF dl[t].result = Ok
       THEN Goto(t, "pi_extract") /\ UNCHANGED result
       ELSE PReturn(t, PluginNotFound(platform, cmd[t].name))
    /\ dl' = [dl EXCEPT ![t] = DlIdle]
    /\ UNCHANGED <<dirs, files, platform, iter, requests, verified, history,
                   plugins, idx, attempted, libName, found, archive>>

\* plugin.rs:133-153 extract_plugin, called at 190 and 208; on Ok installed is
\* true and install_plugin returns Ok (230-231); on Err it bails (191, 209),
\* some of the libraries possibly unpacked already
PiExtract(t) ==
    /\ pc[t] = "pi_extract"
    /\ LET a == files[plugin_archive_path].body
       IN \/ /\ plugin_dir \in dirs
             /\ files' = WithPlugins(files, PluginLibs(a))
             /\ PReturn(t, Ok)
          \/ \E done \in SUBSET PluginLibs(a) :
               /\ plugin_dir \in dirs
               /\ files' = WithPlugins(files, done)
               /\ PReturn(t, Err("extract"))
    /\ UNCHANGED <<dirs, platform, cmd, iter, dl, requests, verified, history,
                   plugins, idx, attempted, libName, found, archive>>

\* the end of install_plugin: temp_dir (a TempDir) is dropped
PiDrop(t) ==
    /\ pc[t] = "pi_drop"
    /\ dirs' = remove_dir_all(dirs, plugin_temp_dir)
    /\ files' = Without(files, {q \in DOMAIN files : IsPrefix(plugin_temp_dir, q)})
    /\ Goto(t, "ret")
    /\ UNCHANGED <<platform, cmd, result, iter, dl, requests, verified, history,
                   plugins, idx, attempted, libName, found, archive>>

\* plugin.rs:155-232: PluginManager::install_plugin, statement by statement
install_plugin(t) ==
    \/ PiMkdir(t)
    \/ PiTempdir(t)
    \/ PiDownload(t)
    \/ DlSend(t)
    \/ DlStatus(t)
    \/ DlCreate(t)
    \/ DlStream(t)
    \/ PiPrimary(t)
    \/ PiAlternate(t)
    \/ PiExtract(t)
    \/ PiDrop(t)

\* plugin.rs:242-253: plugin_lib_name is computed; a panic aborts the process
RmMap(t) ==
    /\ pc[t] = "rm_map"
    /\ IF plugin_lib_name(cmd[t].name).panic
       THEN Finish(t, Panicked) /\ UNCHANGED <<libName, found>>
       ELSE /\ libName' = plugin_lib_name(cmd[t].name).lib
            /\ found' = FALSE
            /\ Goto(t, "rm_read")
            /\ UNCHANGED result
    /\ UNCHANGED <<dirs, files, platform, cmd, iter, dl, requests, verified,
                   history, plugins, idx, attempted, archive>>

\* plugin.rs:257: if let Ok(entries) = std::fs::read_dir(&plugin_dir)
RmRead(t) ==
    /\ pc[t] = "rm_read"
    /\ IF plugin_dir \in dirs
       THEN iter' = [iter EXCEPT ![t] = Children(plugin_dir)] /\ Goto(t, "rm_scan")
       ELSE UNCHANGED iter /\ Goto(t, "rm_end")
    /\ UNCHANGED <<dirs, files, platform, cmd, result, dl, requests, verified,
                   history, plugins, idx, attempted, libName, found, archive>>

\* plugin.rs:258-268: for entry in entries { if file_name == plugin_lib_name
\*     { std::fs::remove_file(entry.path())?; found = true; } }
RmScan(t) ==
    /\ pc[t] = "rm_scan"
    /\ IF iter[t] = {}
       THEN Goto(t, "rm_end") /\ UNCHANGED <<files, iter, found, result>>
       ELSE \E e \in iter[t] :
              IF e[Len(e)] = libName
              THEN \/ /\ e \in DOMAIN files
                      /\ files' = Without(files, {e})
                      /\ found' = TRUE
                      /\ iter' = [iter EXCEPT ![t] = @ \ {e}]
                      /\ UNCHANGED <<pc, result>>
                   \/ /\ pc' = [pc EXCEPT ![t] = "ret"]
                      /\ result' = [result EXCEPT ![t] = IoErr("remove_file")]
                      /\ UNCHANGED <<files, found, iter>>
              ELSE /\ iter' = [iter EXCEPT ![t] = @ \ {e}]
                   /\ UNCHANGED <<files, found, pc, result>>
    /\ UNCHANGED <<dirs, platform, cmd, dl, requests, verified, history,
                   plugins, idx, attempted, libName, archive>>

\* plugin.rs:271-275: if !found { bail!(..) } Ok(())
RmEnd(t) ==
    /\ pc[t] = "rm_end"
    /\ pc' = [pc EXCEPT ![t] = "ret"]
    /\ result' = [result EXCEPT ![t] =
                    IF found THEN Ok ELSE PluginNotInstalled(cmd[t].name)]
    /\ UNCHANGED <<dirs, files, platform, cmd, iter, dl, requests, verified,
                   history, plugins, idx, attempted, libName, found, archive>>

\* plugin.rs:234-276: PluginManager::remove_plugin, statement by statement
remove_plugin(t) ==
    \/ RmMap(t)
    \/ RmRead(t)
    \/ RmScan(t)
    \/ RmEnd(t)

----------------------------------------------------------------------------
(* main.rs:76-114: the plugin commands *)

\* the plugin specs a user may type
PluginSpecs ==
    {<<"w", "a", "s", "i", "-", "n", "n", "-", "g", "g", "m", "l">>,
     <<"w", "a", "s", "i", "-", "c", "r", "y", "p", "t", "o", "@", "1">>,
     <<"w", "a", "s", "m", "e", "d", "g", "e", "-", "i", "m", "a", "g", "e">>,
     <<"w", "a", "s", "m", "e", "d", "g", "e", "-", "a", "-", "-", "b">>,
     <<"f", "o", "o">>}

RECURSIVE SeqsUpTo(_, _)
SeqsUpTo(S, n) ==
    IF n = 0 THEN {<<>>}
    ELSE SeqsUpTo(S, n - 1)
           \cup {Append(q, x) : q \in {r \in SeqsUpTo(S, n - 1) : Len(r) = n - 1}, x \in S}

\* main.rs:82-83 and 106: PluginCommands::Install / Remove { plugins }
MainPlugin(t) ==
    /\ pc[t] = "idle"
    /\ \E op \in {"plugin_install", "plugin_remove"} :
         cmd' = [cmd EXCEPT ![t] = [op |-> op]]
    /\ \E ps \in SeqsUpTo(PluginSpecs, MaxPlugins) : plugins' = ps
    /\ idx' = 1
    /\ Goto(t, "loop")
    /\ UNCHANGED <<dirs, files, platform, result, iter, dl, requests, verified,
                   history, attempted, libName, found, archive>>

\* main.rs:84-89 and 107-112: for plugin_spec in plugins { parse; call }
MainLoop(t) ==
    /\ pc[t] = "loop"
    /\ IF idx > Len(plugins)
       THEN Finish(t, Ok) /\ UNCHANGED <<cmd, attempted, archive, requests>>
       ELSE /\ cmd' = [cmd EXCEPT ![t] =
                        [op |-> cmd[t].op,
                         name |-> parse_plugin_name_version(plugins[idx]).name,
                         version |-> parse_plugin_name_version(plugins[idx]).version,
                         first |-> "none", second |-> "none"]]
            /\ requests' = <<>>
            /\ attempted' = attempted \cup {idx}
            /\ IF cmd[t].op = "plugin_install"
               THEN /\ Goto(t, "pi_mkdir")
                    /\ \E a \in PluginArchives : archive' = [archive EXCEPT ![t] = a]
               ELSE /\ Goto(t, "rm_map")
                    /\ UNCHANGED archive
            /\ UNCHANGED result
    /\ UNCHANGED <<dirs, files, platform, iter, dl, verified, history,
                   plugins, idx, libName, found>>

\* main.rs:87 and 110: the `?` on the call's result, then println and the
\* next iteration
MainNext(t) ==
    /\ pc[t] = "ret"
    /\ IF result[t] = Ok
       THEN /\ Goto(t, "loop")
            /\ idx' = idx + 1
            /\ result' = [result EXCEPT ![t] = None]
       ELSE Goto(t, "done") /\ UNCHANGED <<idx, result>>
    /\ UNCHANGED <<dirs, files, platform, cmd, iter, dl, requests, verified,
                   history, plugins, attempted, libName, found, archive>>

\* platform.rs:113-118 Platform::detect: OS::detect (76-93) yields each OS,
\* Architecture::detect (57-64) X86_64 or Aarch64
DetectedPlatforms == [os : OS, arch : {"X86_64", "Aarch64"}]

PluginFile(n) == Append(plugin_dir, n) :> [kind |-> "plugin"]

\* the hosts the plugin commands are explored on
PluginHosts ==
    {p \in DetectedPlatforms :
        \/ p.os = [kind |-> "Linux", distro |-> "Ubuntu"] /\ p.arch = "X86_64"
        \/ p.os = [kind |-> "Darwin"] /\ p.arch = "Aarch64"}

\* the plugin directories earlier installs may have left
InitPlugin ==
    /\ InitCommon
    /\ platform \in PluginHosts
    /\ \/ /\ dirs = FreshDirs
          /\ files = (UserFile :> [kind |-> "user"])
       \/ /\ dirs = InstalledDirs
          /\ \/ files = (UserFile :> [kind |-> "user"])
             \/ files = (UserFile :> [kind |-> "user"])
                          @@ PluginFile("libwasmedgePluginWasiNN.dylib")
                          @@ PluginFile("libwasmedgePluginWasiNN.so")
             \/ files = (UserFile :> [kind |-> "user"])
                          @@ PluginFile("libwasmedgePluginWasmEdgeImage.dylib")
                          @@ PluginFile("libwasmedgePluginWasiCrypto.dylib")
                          @@ PluginFile("libwasmedgePluginfoo.dylib")

NextPlugin ==
    \/ MainPlugin(1)
    \/ MainLoop(1)
    \/ install_plugin(1)
    \/ remove_plugin(1)
    \/ MainNext(1)

SpecPlugin == InitPlugin /\ [][NextPlugin]_vars

----------------------------------------------------------------------------
(* remove_plugin called on generated names (SpecNames)                      *)

\* plugin.rs:14-22
KNOWN_PLUGINS ==
    {<<"w", "a", "s", "i", "-", "n", "n", "-", "g", "g", "m", "l">>,
     <<"w", "a", "s", "i", "-", "n", "n", "-", "p", "y", "t", "o", "r", "c", "h">>,
     <<"w", "a", "s", "i", "-", "n", "n", "-", "t", "e", "n", "s", "o", "r", "f", "l", "o", "w">>,
     <<"w", "a", "s", "i", "-", "c", "r", "y", "p", "t", "o">>,
     <<"w", "a", "s", "m", "e", "d", "g", "e", "-", "t", "e", "n", "s", "o", "r", "f", "l", "o", "w">>,
     <<"w", "a", "s", "m", "e", "d", "g", "e", "-", "t", "e", "n", "s", "o", "r", "f", "l", "o", "w", "l", "i", "t", "e">>,
     <<"w", "a", "s", "m", "e", "d", "g", "e", "-", "i", "m", "a", "g", "e">>}

SuffixChars == {"a", "b", "-"}

\* each prefix the mapping tells apart, followed by up to MaxSuffixLen characters
GeneratedNames ==
    KNOWN_PLUGINS \cup
    {pre \o suf :
        pre \in {<<"w", "a", "s", "i", "-", "n", "n", "-">>, <<"w", "a", "s", "i", "-", "c", "r", "y", "p", "t", "o">>, <<"w", "a", "s", "m", "e", "d", "g", "e", "-">>, <<>>},
        suf \in SeqsUpTo(SuffixChars, MaxSuffixLen)}

\* the plugin directory earlier installs and copies left: libraries of
\* three platforms
NamesFiles ==
    (UserFile :> [kind |-> "user"])
      @@ PluginFile("libwasmedgePluginWasiNN.dylib")
      @@ PluginFile("libwasmedgePluginWasiNN.so")
      @@ PluginFile("libwasmedgePluginWasmEdgeImage.dylib")
      @@ PluginFile("wasmedgePluginWasmEdgeImage.dll")
      @@ PluginFile("libwasmedgePluginWasmEdgeAb.dylib")
      @@ PluginFile("libwasmedgePluginImage.dylib")

InitNames ==
    /\ InitCommon
    /\ platform \in PluginHosts
    /\ dirs = InstalledDirs
    /\ files = NamesFiles

\* main.rs:110: plugin_manager.remove_plugin(&name, version)
CallRemovePlugin(t) ==
    /\ pc[t] = "idle"
    /\ \E n \in GeneratedNames :
         cmd' = [cmd EXCEPT ![t] = [op |-> "plugin_remove", name |-> n,
                                    version |-> [some |-> FALSE, v |-> <<>>],
                                    first |-> "none", second |-> "none"]]
    /\ Goto(t, "rm_map")
    /\ UNCHANGED <<dirs, files, platform, result, iter, dl, requests, verified,
                   history, plugins, idx, attempted, libName, found, archive>>

NextNames ==
    \/ CallRemovePlugin(1)
    \/ remove_plugin(1)

SpecNames == InitNames /\ [][NextNames]_vars

----------------------------------------------------------------------------
(* The naming tokens of two platforms (SpecPlatform)                        *)

\* plugin.rs:158 and installer.rs:49: the tokens of task t's platform
ResolveTokens(t) ==
    /\ pc[t] = "token"
    /\ result' = [result EXCEPT ![t] =
                    [kind |-> "token",
                     plugin |-> get_platform_string(cmd[t].platform),
                     package |-> get_release_package_name(cmd[t].platform,
                                                          cmd[t].version)]]
    /\ Goto(t, "done")
    /\ UNCHANGED <<dirs, files, platform, cmd, iter, dl, requests, verified,
                   history, plugins, idx, attempted, libName, found, archive>>

InitPlatform ==
    /\ dirs = FreshDirs
    /\ files = (UserFile :> [kind |-> "user"])
    /\ platform \in Platform
    /\ pc = [t \in Tasks |-> "token"]
    /\ \E q \in Platform : \E v \in Versions :
         cmd = [t \in Tasks |->
                  [op |-> "token", platform |-> IF t = 1 THEN platform ELSE q,
                   version |-> v]]
    /\ result = [t \in Tasks |-> None]
    /\ iter = [t \in Tasks |-> {}]
    /\ dl = [t \in Tasks |-> DlIdle]
    /\ archive = [t \in Tasks |-> NoArchive]
    /\ requests = <<>>
    /\ verified = {}
    /\ history = <<>>
    /\ plugins = <<>>
    /\ idx = 0
    /\ attempted = {}
    /\ libName = ""
    /\ found = FALSE

NextPlatform == \E t \in Tasks : ResolveTokens(t)

SpecPlatform == InitPlatform /\ [][NextPlatform]_vars

----------------------------------------------------------------------------
(* The platform of an `install` command (SpecResolve)                       *)

\* platform.rs:27, 29
UnsupportedOS(str) == [kind |-> "err", err |-> "unsupported_os", value |-> str]
UnsupportedArch(str) == [kind |-> "err", err |-> "unsupported_arch", value |-> str]

Value(v) == [kind |-> "ok", value |-> v]

\* platform.rs:57-64: Architecture::detect on std::env::consts::ARCH
Architecture_detect(arch) ==
    CASE Join(arch) = "x86_64" -> Value("X86_64")
      [] Join(arch) \in {"aarch64", "arm64"} -> Value("Aarch64")
      [] OTHER -> UnsupportedArch(Join(arch))

\* platform.rs:66-73: Architecture::from_str; the error carries the bound
\* `arch`, which is the lower-cased string
Architecture_from_str(arch) ==
    LET low == Join(to_lowercase(arch))
    IN CASE low \in {"x86_64", "amd64"} -> Value("X86_64")
         [] low \in {"aarch64", "arm64"} -> Value("Aarch64")
         [] OTHER -> UnsupportedArch(low)

\* platform.rs:76-93: OS::detect on std::env::consts::OS and /etc/os-release
OS_detect(os, ubuntu) ==
    CASE os = "linux" ->
           IF ubuntu THEN Value([kind |-> "Linux", distro |-> "Ubuntu"])
           ELSE Value([kind |-> "Linux", distro |-> "Generic"])
      [] os = "macos" -> Value([kind |-> "Darwin"])
      [] os = "windows" -> Value([kind |-> "Windows"])
      [] OTHER -> UnsupportedOS(os)

\* platform.rs:95-103: OS::from_str
OS_from_str(os) ==
    LET low == Join(to_lowercase(os))
    IN CASE low = "linux" -> Value([kind |-> "Linux", distro |-> "Generic"])
         [] low = "ubuntu" -> Value([kind |-> "Linux", distro |-> "Ubuntu"])
         [] low = "darwin" -> Value([kind |-> "Darwin"])
         [] low = "windows" -> Value([kind |-> "Windows"])
         [] OTHER -> UnsupportedOS(low)

\* Option<String>
NoneStr == [some |-> FALSE, v |-> <<>>]
Some(v) == [some |-> TRUE, v |-> v]

\* values of --os and of --arch
OsStrings == {<<"l", "i", "n", "u", "x">>, <<"U", "b", "u", "n", "t", "u">>, <<"D", "A", "R", "W", "I", "N">>, <<"w", "i", "n", "d", "o", "w", "s">>, <<"b", "s", "d">>}
ArchStrings == {<<"x", "8", "6", "_", "6", "4">>, <<"A", "M", "D", "6", "4">>, <<"a", "a", "r", "c", "h", "6", "4">>, <<"A", "r", "m", "6", "4">>, <<"S", "P", "A", "R", "C">>, <<"a", "m", "d", "6", "4">>}

\* std::env::consts::OS, whether /etc/os-release has "Ubuntu", and
\* std::env::consts::ARCH of the hosts explored
Hosts ==
    [os : {"linux", "macos", "windows", "freebsd"},
     ubuntu : BOOLEAN,
     arch : {<<"x", "8", "6", "_", "6", "4">>, <<"a", "a", "r", "c", "h", "6", "4">>, <<"r", "i", "s", "c", "v", "6", "4">>}]

NoPlatform == [os |-> [kind |-> "none"], arch |-> "none"]

\* a match that takes the override as soon as one of the two is given
OverrideGivenEither(os, arch) == os.some \/ arch.some

\* main.rs:30-31: match (os, arch) { (Some(os_str), Some(arch_str)) => ..
OverrideGiven(os, arch) == os.some /\ arch.some

\* a call of a platform.rs function returned r for input arg
Called(f, arg, r) == Append(history, [op |-> f, arg |-> arg, result |-> r])

ResolveFrame ==
    UNCHANGED <<dirs, files, iter, dl, requests, verified, plugins, idx,
                attempted, libName, found, archive>>

\* main.rs:30-38: the match on (os, arch)
MainMatch(t) ==
    /\ pc[t] = "match"
    /\ IF OverrideGiven(cmd[t].os, cmd[t].arch)
       THEN Goto(t, "os_from_str")
       ELSE Goto(t, "os_detect")
    /\ UNCHANGED <<platform, cmd, result, history>>
    /\ ResolveFrame

\* one call f(arg) = r whose `?` returns the error from main or stores the
\* value in the field of the Platform under construction
ResolveStep(t, at, f, arg, r, field, next) ==
    /\ pc[t] = at
    /\ history' = Called(f, arg, r)
    /\ IF r.kind = "err"
       THEN Finish(t, r) /\ UNCHANGED platform
       ELSE /\ platform' = [platform EXCEPT ![field] = r.value]
            /\ IF next = "done" THEN Finish(t, Ok)
               ELSE Goto(t, next) /\ UNCHANGED result
    /\ UNCHANGED cmd
    /\ ResolveFrame

\* main.rs:32-35: Platform::new(OS::from_str(os_str)?, Architecture::from_str(arch_str)?)
PlatformOverride(t) ==
    \/ ResolveStep(t, "os_from_str", "OS::from_str", cmd[t].os.v,
                   OS_from_str(cmd[t].os.v), "os", "arch_from_str")
    \/ ResolveStep(t, "arch_from_str", "Architecture::from_str", cmd[t].arch.v,
                   Architecture_from_str(cmd[t].arch.v), "arch", "done")

\* platform.rs:113-118: Platform::detect, called at main.rs:37
Platform_detect(t) ==
    \/ ResolveStep(t, "os_detect", "OS::detect", cmd[t].host.os,
                   OS_detect(cmd[t].host.os, cmd[t].host.ubuntu), "os", "arch_detect")
    \/ ResolveStep(t, "arch_detect", "Architecture::detect", cmd[t].host.arch,
                   Architecture_detect(cmd[t].host.arch), "arch", "done")

InitResolve ==
    /\ dirs = FreshDirs
    /\ files = (UserFile :> [kind |-> "user"])
    /\ platform = NoPlatform
    /\ pc = [t \in Tasks |-> IF t = 1 THEN "match" ELSE "idle"]
    /\ \E os \in {NoneStr} \cup {Some(v) : v \in OsStrings} :
       \E arch \in {NoneStr} \cup {Some(v) : v \in ArchStrings} :
       \E h \in Hosts :
         cmd = [t \in Tasks |->
                  IF t = 1
                  THEN [op |-> "install", os |-> os, arch |-> arch, host |-> h]
                  ELSE NoCmd]
    /\ result = [t \in Tasks |-> None]
    /\ iter = [t \in Tasks |-> {}]
    /\ dl = [t \in Tasks |-> DlIdle]
    /\ archive = [t \in Tasks |-> NoArchive]
    /\ requests = <<>>
    /\ verified = {}
    /\ history = <<>>
    /\ plugins = <<>>
    /\ idx = 0
    /\ attempted = {}
    /\ libName = ""
    /\ found = FALSE

NextResolve ==
    \/ MainMatch(1)
    \/ PlatformOverride(1)
    \/ Platform_detect(1)

SpecResolve == InitResolve /\ [][NextResolve]_vars

----------------------------------------------------------------------------
(* plugin.rs: PluginManager::list_available_plugins (SpecList)              *)

\* the characters of a platform token (the inverse of Join on the tokens)
Chars(str) ==
    CASE str = "ubuntu20.04_x86_64" ->
           <<"u", "b", "u", "n", "t", "u", "2", "0", ".", "0", "4", "_", "x",
           "8", "6", "_", "6", "4">>
      [] str = "ubuntu20.04_arm64" ->
           <<"u", "b", "u", "n", "t", "u", "2", "0", ".", "0", "4", "_", "a",
           "r", "m", "6", "4">>
      [] str = "manylinux2014_x86_64" ->
           <<"m", "a", "n", "y", "l", "i", "n", "u", "x", "2", "0", "1", "4",
           "_", "x", "8", "6", "_", "6", "4">>
      [] str = "manylinux2014_arm64" ->
           <<"m", "a", "n", "y", "l", "i", "n", "u", "x", "2", "0", "1", "4",
           "_", "a", "r", "m", "6", "4">>
      [] str = "darwin_x86_64" ->
           <<"d", "a", "r", "w", "i", "n", "_", "x", "8", "6", "_", "6", "4">>
      [] str = "darwin_arm64" ->
           <<"d", "a", "r", "w", "i", "n", "_", "a", "r", "m", "6", "4">>
      [] str = "windows_x86_64" ->
           <<"w", "i", "n", "d", "o", "w", "s", "_", "x", "8", "6", "_", "6",
           "4">>
      [] str = "windows_arm64" ->
           <<"w", "i", "n", "d", "o", "w", "s", "_", "a", "r", "m", "6", "4">>

EndsWith(s, suf) ==
    Len(suf) <= Len(s) /\ SubSeq(s, Len(s) - Len(suf) + 1, Len(s)) = suf

\* str::contains
Contains(s, sub) ==
    \E i \in 1..(Len(s) - Len(sub) + 1) : SubSeq(s, i, i + Len(sub) - 1) = sub

\* [&str]::join("-")
RECURSIVE JoinHyphen(_)
JoinHyphen(parts) ==
    IF parts = <<>> THEN ""
    ELSE IF Len(parts) = 1 THEN Join(parts[1])
    ELSE Join(parts[1]) \o "-" \o JoinHyphen(Tail(parts))

\* wasi-nn-ggml for Ubuntu x86_64
Asset1 ==
    <<"W", "a", "s", "m", "E", "d", "g", "e", "-", "p", "l", "u", "g",
      "i", "n", "-", "w", "a", "s", "i", "_", "n", "n", "-", "g", "g",
      "m", "l", "-", "0", ".", "1", "4", ".", "1", "-", "u", "b", "u",
      "n", "t", "u", "2", "0", ".", "0", "4", "_", "x", "8", "6", "_",
      "6", "4", ".", "t", "a", "r", ".", "g", "z">>

\* wasi-nn-ggml for macOS arm64
Asset2 ==
    <<"W", "a", "s", "m", "E", "d", "g", "e", "-", "p", "l", "u", "g",
      "i", "n", "-", "w", "a", "s", "i", "_", "n", "n", "-", "g", "g",
      "m", "l", "-", "0", ".", "1", "4", ".", "1", "-", "d", "a", "r",
      "w", "i", "n", "_", "a", "r", "m", "6", "4", ".", "t", "a", "r",
      ".", "g", "z">>

\* the asset names a release may list
Assets ==
    {Asset1, Asset2,
     \* wasmedge-image for macOS arm64
     <<"W", "a", "s", "m", "E", "d", "g", "e", "-", "p", "l", "u", "g",
       "i", "n", "-", "w", "a", "s", "m", "e", "d", "g", "e", "_", "i",
       "m", "a", "g", "e", "-", "0", ".", "1", "4", ".", "1", "-", "d",
       "a", "r", "w", "i", "n", "_", "a", "r", "m", "6", "4", ".", "t",
       "a", "r", ".", "g", "z">>,
     \* the runtime, no plugin
     <<"W", "a", "s", "m", "E", "d", "g", "e", "-", "0", ".", "1", "4",
       ".", "1", "-", "d", "a", "r", "w", "i", "n", "_", "a", "r", "m",
       "6", "4", ".", "t", "a", "r", ".", "g", "z">>,
     \* three segments
     <<"W", "a", "s", "m", "E", "d", "g", "e", "-", "p", "l", "u", "g",
       "i", "n", "-", "x", ".", "t", "a", "r", ".", "g", "z">>,
     \* not a .tar.gz
     <<"W", "a", "s", "m", "E", "d", "g", "e", "-", "p", "l", "u", "g",
       "i", "n", "-", "w", "a", "s", "i", "_", "c", "r", "y", "p", "t",
       "o", "-", "0", ".", "1", "4", ".", "1", "-", "u", "b", "u", "n",
       "t", "u", "2", "0", ".", "0", "4", "_", "x", "8", "6", "_", "6",
       "4", ".", "z", "i", "p">>,
     \* four segments, none of them the name
     <<"W", "a", "s", "m", "E", "d", "g", "e", "-", "p", "l", "u", "g",
       "i", "n", "-", "a", "-", "b", ".", "t", "a", "r", ".", "g", "z">>}

\* plugin.rs:102-105
release_url ==
    "https://api.github.com/repos/WasmEdge/WasmEdge/releases/tags/" \o runtime_version

\* plugin.rs:113: the asset is a plugin archive
is_plugin_asset(name) ==
    StartsWith(name, <<"W", "a", "s", "m", "E", "d", "g", "e", "-", "p", "l", "u", "g", "i", "n", "-">>) /\ EndsWith(name, <<".", "t", "a", "r", ".", "g", "z">>)

\* plugin.rs:117: parts[2..parts.len()-2].join("-")
asset_plugin_name(parts) == JoinHyphen(SubSeq(parts, 3, Len(parts) - 2))

\* plugin.rs:119: asset.name.contains(&platform_string)
is_compatible(name, p) == Contains(name, Chars(get_platform_string(p)))

\* a check that finds no name seen
seen_contains_never(seen, name) == FALSE

\* plugin.rs:122: seen_plugins.contains(&plugin_name)
seen_contains(seen, name) == name \in seen

ListFrame ==
    UNCHANGED <<dirs, files, platform, dl, verified, history, plugins, idx,
                attempted, libName, found, archive>>

\* plugin.rs:108: self.downloader.download_json(&url).await?
ListFetch(t) ==
    /\ pc[t] = "list_fetch"
    /\ requests' = Append(requests, release_url)
    /\ \/ Finish(t, Err("download_json")) /\ UNCHANGED iter
       \/ /\ iter' = [iter EXCEPT ![t] = cmd[t].assets]
          /\ Goto(t, "list_loop")
          /\ UNCHANGED result
    /\ UNCHANGED cmd
    /\ ListFrame

\* plugin.rs:112-128: one turn of `for asset in release.assets`
ListAsset(t) ==
    /\ pc[t] = "list_loop"
    /\ iter[t] # <<>>
    /\ LET name == Head(iter[t])
           parts == Split(name, "-")
       IN IF /\ is_plugin_asset(name)
             /\ Len(parts) >= 4
             /\ ~seen_contains(cmd[t].seen, asset_plugin_name(parts))
          THEN cmd' = [cmd EXCEPT
                         ![t].seen = @ \cup {asset_plugin_name(parts)},
                         ![t].available =
                            Append(@, [name |-> asset_plugin_name(parts),
                                       version |-> runtime_version,
                                       compatible |-> is_compatible(name, platform)])]
          ELSE UNCHANGED cmd
    /\ iter' = [iter EXCEPT ![t] = Tail(@)]
    /\ UNCHANGED <<pc, result, requests>>
    /\ ListFrame

\* plugin.rs:130: Ok(available_plugins)
ListReturn(t) ==
    /\ pc[t] = "list_loop"
    /\ iter[t] = <<>>
    /\ Finish(t, Value(cmd[t].available))
    /\ UNCHANGED <<cmd, iter, requests>>
    /\ ListFrame

\* plugin.rs:97-131
list_available_plugins(t) ==
    \/ ListFetch(t)
    \/ ListAsset(t)
    \/ ListReturn(t)

InitList ==
    /\ dirs = InstalledDirs
    /\ files = (UserFile :> [kind |-> "user"])
    /\ platform \in PluginHosts
    /\ pc = [t \in Tasks |-> IF t = 1 THEN "list_fetch" ELSE "idle"]
    /\ \E as \in SeqsUpTo(Assets, MaxAssets) :
         cmd = [t \in Tasks |->
                  IF t = 1
                  THEN [op |-> "plugin_list", assets |-> as,
                        available |-> <<>>, seen |-> {}]
                  ELSE NoCmd]
    /\ result = [t \in Tasks |-> None]
    /\ iter = [t \in Tasks |-> <<>>]
    /\ dl = [t \in Tasks |-> DlIdle]
    /\ archive = [t \in Tasks |-> NoArchive]
    /\ requests = <<>>
    /\ verified = {}
    /\ history = <<>>
    /\ plugins = <<>>
    /\ idx = 0
    /\ attempted = {}
    /\ libName = ""
    /\ found = FALSE

NextList == list_available_plugins(1)

SpecList == InitList /\ [][NextList]_vars

----------------------------------------------------------------------------
(* install_plugin called with a name and a version (SpecUrls)               *)

\* names install_plugin is called with
InstallNames == KNOWN_PLUGINS \cup {<<"f", "o", "o">>, <<"a", "-", "b", "-", "c">>}

\* the version argument: None, or Some of a version
VersionArgs == {NoneStr, Some(<<"0", ".", "1", "3", ".", "5">>), Some(<<"0", ".", "1", "4", ".", "1">>)}

InitUrls ==
    /\ InitCommon
    /\ platform \in DetectedPlatforms
    /\ dirs = InstalledDirs
    /\ files = (UserFile :> [kind |-> "user"])

\* main.rs:87: plugin_manager.install_plugin(&name, version)
CallInstallPlugin(t) ==
    /\ pc[t] = "idle"
    /\ \E n \in InstallNames : \E v \in VersionArgs :
         cmd' = [cmd EXCEPT ![t] = [op |-> "plugin_install", name |-> n,
                                    version |-> v,
                                    first |-> "none", second |-> "none"]]
    /\ \E a \in PluginArchives : archive' = [archive EXCEPT ![t] = a]
    /\ Goto(t, "pi_mkdir")
    /\ UNCHANGED <<dirs, files, platform, result, iter, dl, requests, verified,
                   history, plugins, idx, attempted, libName, found>>

NextUrls ==
    \/ CallInstallPlugin(1)
    \/ install_plugin(1)

SpecUrls == InitUrls /\ [][NextUrls]_vars

----------------------------------------------------------------------------
(* Two `install` invocations at once, on one install path and one temp      *)
(* directory (SpecConcurrent)                                               *)

\* the version each invocation installs: two invocations, two versions
VersionOf == <<"0.14.1", "0.13.5">>

\* the archives that unpack into the directory extract_archive looks in,
\* with a lib directory and no lib64, with or without bin
MovableArchives(p, v) ==
    {a \in RuntimeArchives(p, v) :
        /\ Append(temp_dir, a.root) = extracted_dir(p, v)
        /\ "lib" \in DOMAIN a.tree /\ "lib64" \notin DOMAIN a.tree}

\* both processes are at the first statement of install_runtime
InitConcurrent ==
    /\ dirs = FreshDirs
    /\ files = (UserFile :> [kind |-> "user"])
    /\ platform = [os |-> [kind |-> "Linux", distro |-> "Ubuntu"], arch |-> "X86_64"]
    /\ pc = [t \in Tasks |-> "mk_install"]
    /\ cmd = [t \in Tasks |-> [op |-> "install", version |-> VersionOf[t]]]
    /\ archive \in [Tasks -> UNION {MovableArchives(platform, VersionOf[t]) : t \in Tasks}]
    /\ \A t \in Tasks : archive[t].version = VersionOf[t]
    /\ result = [t \in Tasks |-> None]
    /\ iter = [t \in Tasks |-> {}]
    /\ dl = [t \in Tasks |-> DlIdle]
    /\ requests = <<>>
    /\ verified = {}
    /\ history = <<>>
    /\ plugins = <<>>
    /\ idx = 0
    /\ attempted = {}
    /\ libName = ""
    /\ found = FALSE

\* the scheduler runs a step of either process
NextConcurrent == \E t \in Tasks : install_runtime(t)

SpecConcurrent == InitConcurrent /\ [][NextConcurrent]_vars

----------------------------------------------------------------------------
(* Claims about the runtime installer and the downloader (SpecRuntime)      *)

InstallDone(t) == cmd[t].op = "install" /\ pc[t] = "done"

InstallOk(t) == InstallDone(t) /\ result[t] = Ok

\* the entries archive a holds under its sub-directory d (none if absent)
EntriesOf(a, d) == IF d \in DOMAIN a.tree THEN a.tree[d] ELSE {}

InTree(sub, n) == install_path \o <<sub, n>> \in DOMAIN files

\* C3: after a successful install(version) the extracted root is
\* WasmEdge-<version>-<os-token>-<arch-token> (the tokens of the download URL),
\* and of an archive with that root every entry under bin, lib64 (if present,
\* else lib) and include is in <install>/bin, /lib and /include, and
\* <install>/env exists.
C3_ArchivePlaced ==
    \A t \in Tasks :
      InstallOk(t) =>
        /\ archive[t].root = UrlTokenRoot(platform, cmd[t].version) =>
             /\ \A n \in EntriesOf(archive[t], "bin") : InTree("bin", n)
             /\ \A n \in EntriesOf(archive[t],
                                   IF "lib64" \in DOMAIN archive[t].tree
                                   THEN "lib64" ELSE "lib") : InTree("lib", n)
             /\ \A n \in EntriesOf(archive[t], "include") : InTree("include", n)
        /\ env_file \in DOMAIN files

\* C4: no install reaches the extraction of the downloaded archive without
\* verify_checksum having been called on it after the fetch.
C4_VerifiedBeforeUnpack ==
    \A t \in Tasks :
      pc[t] \in {"read_archive", "unpack"} =>
        archive_path(cmd[t].version) \in verified

\* what a successful install has done, step by step
AllStepsDone(t) ==
    /\ InstalledDirs \subseteq dirs
    /\ UnpackedDirs(archive[t]) \subseteq dirs
    /\ Children(Append(extracted_dir(platform, cmd[t].version), "bin")) = {}
    /\ Children(lib_source(platform, cmd[t].version)) = {}
    /\ Children(Append(extracted_dir(platform, cmd[t].version), "include")) = {}
    /\ env_file \in DOMAIN files
    /\ files[env_file].lines = env_content(platform)
    /\ files[env_file].mode = "0755"
    /\ archive_path(cmd[t].version) \notin DOMAIN files

InstallRunning(t) == cmd[t].op = "install" /\ pc[t] \notin {"idle", "done"}

Outside(p, S) == {q \in S : ~IsPrefix(p, q)}

\* C6: remove() succeeds; on a path that does not exist it changes nothing, on
\* an existing path it leaves the path absent and the parent directory and
\* everything outside the path as they were; two removes in a row both succeed.
C6_RemoveIdempotent ==
    /\ [][\A t \in Tasks :
            pc[t] = "remove" /\ pc'[t] = "done" =>
              /\ result'[t] = Ok
              /\ ~Exists(install_path) => dirs' = dirs /\ files' = files
              /\ Exists(install_path) =>
                   /\ install_path \notin dirs' /\ install_path \notin DOMAIN files'
                   /\ Parent(install_path) \in dirs'
                   /\ dirs' = Outside(install_path, dirs)
                   /\ files' = Without(files, DOMAIN files
                                                \ Outside(install_path, DOMAIN files))]_vars
    /\ [](\A t \in Tasks :
            /\ pc[t] = "done" /\ cmd[t].op = "remove"
            /\ Len(history) > 0 /\ history[Len(history)].op = "remove"
            => history[Len(history)].result = Ok /\ result[t] = Ok)

\* a second remove in a row has finished, the first having deleted a tree
C6_Witness ==
    \E t \in Tasks :
      /\ pc[t] = "done" /\ cmd[t].op = "remove" /\ result[t] = Ok
      /\ Len(history) = 2
      /\ history[1].op = "install" /\ history[2].op = "remove"
      /\ ~Exists(install_path)
      /\ UserFile \in DOMAIN files

\* C10: download_file on a non-2xx status returns the HTTP status error with
\* that status and leaves the file system as it was; no step of a download
\* changes a file unless a 2xx status has been observed.
C10_NoFileOnHttpError ==
    /\ [][\A t \in Tasks :
            dl[t].pc = "status" /\ ~(200 <= dl[t].status /\ dl[t].status <= 299) =>
              /\ dl'[t].pc = "returned"
              /\ dl'[t].result = HttpStatusError(dl[t].status)
              /\ files' = files /\ dirs' = dirs]_vars
    /\ [][\A t \in Tasks :
            dl[t].pc \notin {"idle", "returned"} /\ files' # files =>
              200 <= dl[t].status /\ dl[t].status <= 299]_vars

\* a 404 came back for an archive path that held an older download, which is
\* still there, complete
C10_Witness ==
    \E t \in Tasks :
      /\ dl[t].pc = "returned"
      /\ dl[t].result = HttpStatusError(404)
      /\ dl[t].dest \in DOMAIN files
      /\ files[dl[t].dest] = Leftover[dl[t].dest]

----------------------------------------------------------------------------
(* Claims about the plugin manager (SpecPlugin, SpecNames)                  *)

InPluginCall(t, op) ==
    /\ cmd[t].op = op
    /\ "name" \in DOMAIN cmd[t]
    /\ pc[t] \notin {"idle", "loop"}

Returned(t) == pc[t] \in {"ret", "done"}

\* the name at main's position in the list is the name the call was given
NameAsSupplied(t) ==
    idx \in DOMAIN plugins =>
      cmd[t].name = parse_plugin_name_version(plugins[idx]).name

\* C1: install_plugin requests the primary URL first and the alternate URL
\* if and only if the primary download failed, never a third; with both
\* downloads failed it returns PluginNotFound naming the plugin as supplied;
\* with one download and its extraction succeeded it returns Ok.
C1_TwoAttemptsInOrder ==
    \A t \in Tasks :
      InPluginCall(t, "plugin_install") =>
        /\ NameAsSupplied(t)
        /\ Len(requests) <= 2
        /\ Len(requests) >= 1 => requests[1] = plugin_url(platform, cmd[t].name)
        /\ Len(requests) = 2 =>
             /\ requests[2] = plugin_alt_url(platform, cmd[t].name)
             /\ requests[2] # requests[1]
             /\ cmd[t].first = "err"
        /\ Returned(t) /\ cmd[t].first = "err" => Len(requests) = 2
        /\ cmd[t].first = "ok" => Len(requests) = 1 /\ cmd[t].second = "none"
        /\ Returned(t) /\ cmd[t].first = "err" /\ cmd[t].second = "err" =>
             /\ result[t].kind = "err"
             /\ result[t].err = "plugin_not_found"
             /\ result[t].plugin = Join(cmd[t].name)
        /\ Returned(t) /\ (cmd[t].first = "ok" \/ cmd[t].second = "ok") =>
             result[t] \in {Ok, Err("extract")}

\* both downloads of wasi-nn-ggml failed and the error names it
C1_Witness ==
    \E t \in Tasks :
      /\ InPluginCall(t, "plugin_install")
      /\ pc[t] = "done"
      /\ Len(requests) = 2
      /\ result[t].kind = "err"
      /\ result[t].err = "plugin_not_found"
      /\ result[t].plugin = "wasi-nn-ggml"

\* C2: in a plugin install|remove command, the failure of plugin i does not
\* keep the plugins after it from being attempted: when the command is over,
\* every position of the list was attempted.
C2_FailureDoesNotAbort ==
    \A t \in Tasks :
      /\ cmd[t].op \in {"plugin_install", "plugin_remove"}
      /\ pc[t] = "done"
      /\ \/ result[t] = Ok
         \/ /\ result[t].kind = "err"
            /\ result[t].err \in {"plugin_not_found", "plugin_not_installed"}
      => attempted = 1..Len(plugins)

\* C9: remove_plugin ends with one of two results, Ok with every file of the
\* mapped name deleted, or PluginNotInstalled when none matched; it never
\* crashes (a failure of the file system to delete a file apart).
C9_RemoveNeverCrashes ==
    \A t \in Tasks :
      /\ InPluginCall(t, "plugin_remove")
      /\ Returned(t)
      /\ result[t] # IoErr("remove_file")
      => \/ result[t] = Ok /\ Append(plugin_dir, libName) \notin DOMAIN files
         \/ result[t] = PluginNotInstalled(cmd[t].name)

\* the characters of s with each `-` dropped and the character that starts s
\* or follows a `-` upper-cased
RECURSIVE Titled(_, _)
Titled(s, start) ==
    IF s = <<>> THEN ""
    ELSE IF Head(s) = "-" THEN Titled(Tail(s), TRUE)
    ELSE (IF start THEN to_uppercase(Head(s)) ELSE Head(s)) \o Titled(Tail(s), FALSE)

\* s ends with `-`, starts with `-` or has `--`, or is empty
HasEmptySegment(s) ==
    \/ s = <<>>
    \/ s[1] = "-"
    \/ s[Len(s)] = "-"
    \/ \E i \in 1..(Len(s) - 1) : s[i] = "-" /\ s[i + 1] = "-"

Mapped(t) == InPluginCall(t, "plugin_remove") /\ pc[t] \in {"rm_read", "rm_scan", "rm_end", "ret"}

----------------------------------------------------------------------------
(* Claims about the platform tokens (SpecPlatform)                          *)

Resolved(t) == pc[t] = "done" /\ result[t].kind = "token"

----------------------------------------------------------------------------
(* Claims about the platform of an install (SpecResolve)                    *)

\* the architecture the claim's table gives a string, "none" outside it
ArchOf(str) ==
    CASE str \in {"x86_64", "amd64"} -> "X86_64"
      [] str \in {"aarch64", "arm64"} -> "Aarch64"
      [] OTHER -> "none"

\* C11: Architecture::detect maps x86_64 and amd64 to X86_64 and aarch64 and
\* arm64 to Aarch64; Architecture::from_str does so on the lower-cased
\* string; both return, for every other string, UnsupportedArch carrying the
\* string as it was given.
C11_ArchResolution ==
    \A i \in 1..Len(history) :
      LET c == history[i]
          raw == Join(c.arg)
          key == IF c.op = "Architecture::from_str"
                 THEN Join(to_lowercase(c.arg)) ELSE raw
      IN c.op \in {"Architecture::detect", "Architecture::from_str"} =>
           IF ArchOf(key) # "none"
           THEN c.result = Value(ArchOf(key))
           ELSE c.result = UnsupportedArch(raw)

Calls(f) == {i \in 1..Len(history) : history[i].op = f}

Detects == Calls("OS::detect") \cup Calls("Architecture::detect")
Overrides == Calls("OS::from_str") \cup Calls("Architecture::from_str")

\* the Platform that detection alone gives host h, if it gives one
DetectedOn(h) ==
    [os |-> OS_detect(h.os, h.ubuntu).value,
     arch |-> Architecture_detect(h.arch).value]

----------------------------------------------------------------------------
(* Claims about the plugin listing (SpecList)                               *)

\* asset a contributes an entry
Contributes(a) == is_plugin_asset(a) /\ Len(Split(a, "-")) >= 4

\* the name derived from a contributing asset
Derived(a) ==
    LET parts == Split(a, "-")
    IN JoinHyphen([i \in 1..(Len(parts) - 4) |-> parts[i + 2]])

\* the position in as of the first asset from which name n is derived
FirstOf(as, n) ==
    CHOOSE i \in 1..Len(as) :
      /\ Contributes(as[i]) /\ Derived(as[i]) = n
      /\ \A j \in 1..(i - 1) : ~(Contributes(as[j]) /\ Derived(as[j]) = n)

\* C12: the list returned has one entry per distinct derived name, in the
\* order of first occurrence; the name is segments [2, len-2) of the asset
\* name; compatible is true iff the first asset of that name contains the
\* platform token; other assets contribute nothing.
C12_ListOnePerName ==
    \A t \in Tasks :
      cmd[t].op = "plugin_list" /\ pc[t] = "done" /\ result[t].kind = "ok" =>
        LET as == cmd[t].assets
            out == result[t].value
            names == {Derived(as[i]) : i \in {k \in 1..Len(as) : Contributes(as[k])}}
        IN /\ {out[j].name : j \in 1..Len(out)} = names
           /\ Len(out) = Cardinality(names)
           /\ \A j, k \in 1..Len(out) :
                j < k => FirstOf(as, out[j].name) < FirstOf(as, out[k].name)
           /\ \A j \in 1..Len(out) :
                /\ out[j].compatible <=>
                     Contains(as[FirstOf(as, out[j].name)],
                              Chars(get_platform_string(platform)))
                /\ Join(Chars(get_platform_string(platform)))
                     = get_platform_string(platform)

\* on macOS arm64 the release lists wasi_nn-ggml for Ubuntu first and for
\* macOS second: one entry, not compatible
C12_Witness ==
    \E t \in Tasks :
      /\ cmd[t].op = "plugin_list" /\ pc[t] = "done"
      /\ platform.os.kind = "Darwin"
      /\ cmd[t].assets = <<Asset1, Asset2>>
      /\ result[t] = Value(<<[name |-> "wasi_nn-ggml", version |-> "0.14.1",
                               compatible |-> FALSE]>>)

----------------------------------------------------------------------------
(* Claims about the URLs of a plugin (SpecUrls)                             *)

\* name with its first `-`, and no other character, turned into `_`
FirstHyphenOnly(name) ==
    [i \in 1..Len(name) |->
       IF name[i] = "-" /\ \A j \in 1..(i - 1) : name[j] # "-"
       THEN "_" ELSE name[i]]

ReleaseDownload == "https://github.com/WasmEdge/WasmEdge/releases/download/"

\* C13: install_plugin(name, version) requests
\* .../download/<rv>/WasmEdge-plugin-<norm>-<rv>-<token>.tar.gz and then
\* .../download/<rv>/WasmEdge-plugin-<norm>-<token>.tar.gz, <norm> being name
\* with only its first `-` replaced by `_` and <rv> the manager's runtime
\* version, whatever the version argument is.
C13_UrlsFromNameOnly ==
    \A t \in Tasks :
      InPluginCall(t, "plugin_install") =>
        LET norm == Join(FirstHyphenOnly(cmd[t].name))
            token == get_platform_string(platform)
        IN /\ Len(requests) >= 1 =>
                requests[1] = ReleaseDownload \o runtime_version
                                \o "/WasmEdge-plugin-" \o norm \o "-"
                                \o runtime_version \o "-" \o token \o ".tar.gz"
           /\ Len(requests) >= 2 =>
                requests[2] = ReleaseDownload \o runtime_version
                                \o "/WasmEdge-plugin-" \o norm \o "-"
                                \o token \o ".tar.gz"
           /\ pc[t] \in {"pi_wait1", "pi_wait2"} /\ dl[t].pc # "send" =>
                requests # <<>>

\* wasi-nn-ggml at version 0.13.5 on Ubuntu x86_64: both URLs carry
\* wasi_nn-ggml and 0.14.1
C13_Witness ==
    \E t \in Tasks :
      /\ InPluginCall(t, "plugin_install")
      /\ pc[t] = "ret"
      /\ cmd[t].name = <<"w", "a", "s", "i", "-", "n", "n", "-", "g", "g", "m", "l">>
      /\ cmd[t].version = Some(<<"0", ".", "1", "3", ".", "5">>)
      /\ requests =
           <<"https://github.com/WasmEdge/WasmEdge/releases/download/0.14.1/WasmEdge-plugin-wasi_nn-ggml-0.14.1-ubuntu20.04_x86_64.tar.gz",
             "https://github.com/WasmEdge/WasmEdge/releases/download/0.14.1/WasmEdge-plugin-wasi_nn-ggml-ubuntu20.04_x86_64.tar.gz">>

----------------------------------------------------------------------------
(* Claims about what remove_plugin leaves alone (SpecNames)                 *)

\* what a library name is before its extension, for plugin name n
Stems(n) ==
    {"libwasmedgePluginWasiNN",
     "libwasmedgePluginWasiCrypto",
     "libwasmedgePluginWasmEdge" \o Titled(SubSeq(n, 10, Len(n)), TRUE),
     "libwasmedgePlugin" \o Join(n)}

\* C16: remove_plugin deletes only files of the plugin directory whose name
\* is the mapped library name, which ends in `.dylib` on every platform;
\* every other file (the `.so` and `.dll` there among them) stays as it was,
\* and when it returns the not-installed error the file system is as before.
C16_RemoveOnlyExactDylib ==
    \A t \in Tasks :
      InPluginCall(t, "plugin_remove") =>
        /\ dirs = InstalledDirs
        /\ DOMAIN files \subseteq DOMAIN NamesFiles
        /\ \A q \in DOMAIN files : files[q] = NamesFiles[q]
        /\ \A q \in DOMAIN NamesFiles \ DOMAIN files :
             /\ Mapped(t)
             /\ q = Append(plugin_dir, libName)
        /\ Mapped(t) => libName \in {stem \o ".dylib" : stem \in Stems(cmd[t].name)}
        /\ Returned(t) /\ result[t] = PluginNotInstalled(cmd[t].name) =>
             files = NamesFiles

\* wasi-nn-ggml was removed on an Ubuntu host: the .dylib is gone, the .so is
\* still there
C16_Witness ==
    \E t \in Tasks :
      /\ InPluginCall(t, "plugin_remove")
      /\ platform.os = [kind |-> "Linux", distro |-> "Ubuntu"]
      /\ cmd[t].name = <<"w", "a", "s", "i", "-", "n", "n", "-", "g", "g", "m", "l">>
      /\ pc[t] = "ret" /\ result[t] = Ok
      /\ Append(plugin_dir, "libwasmedgePluginWasiNN.dylib") \notin DOMAIN files
      /\ Append(plugin_dir, "libwasmedgePluginWasiNN.so") \in DOMAIN files
      /\ DOMAIN files = DOMAIN NamesFiles \ {Append(plugin_dir, "libwasmedgePluginWasiNN.dylib")}

----------------------------------------------------------------------------
(* Claims about two installs at once (SpecConcurrent)                       *)

\* install t is moving entries and every entry its iterator still holds is
\* gone from the extracted directory
Starved(t) ==
    /\ pc[t] \in {"move_bin", "move_lib", "move_include"}
    /\ iter[t] # {}
    /\ iter[t] \cap DOMAIN files = {}

\* C14: two installs on one install path and one temp directory are not
\* mutually excluded: whatever the other has done or is doing, an install
\* that has not returned has a step it can take, so their steps interleave;
\* and an install whose entries the other one has moved away fails at its
\* next step.
C14_NoMutualExclusion ==
    /\ [](\A t \in Tasks :
            cmd[t].op = "install" /\ pc[t] \notin {"idle", "done"} =>
              ENABLED install_runtime(t))
    /\ [][\A t \in Tasks :
            Starved(t) /\ (pc'[t] # pc[t] \/ iter'[t] # iter[t]) =>
              pc'[t] = "done" /\ result'[t] = IoErr(pc[t])]_vars

\* both installs returned Ok, and the tree holds bin/wasmedge of 0.14.1 next
\* to lib/libwasmedge.a of 0.13.5
C14_Witness ==
    /\ \A t \in Tasks : InstallOk(t)
    /\ cmd[1].version # cmd[2].version
    /\ InTree("bin", "wasmedge") /\ InTree("lib", "libwasmedge.a")
    /\ files[install_path \o <<"bin", "wasmedge">>].version = "0.14.1"
    /\ files[install_path \o <<"lib", "libwasmedge.a">>].version = "0.13.5"

====
